---- MODULE Spec2Model ----
(***************************************************************************)
(* Model of the Singapore family finance planner (src/app.py).             *)
(*                                                                         *)
(* The program is a Streamlit script: every user interaction re-runs the   *)
(* whole script, which reads the widgets, keeps the list of one-time       *)
(* expenses in the session state and rebuilds the 72-month projection      *)
(* table df.  One action of the model is one interaction followed by the   *)
(* complete re-run it triggers.                                            *)
(*                                                                         *)
(* Numbers.  Money is held in cents (integers).  The two places where the  *)
(* program uses real-valued powers, (1+c)^n of the level payment and       *)
(* (1+0.02/12)^k of the property value, are computed in fixed point with   *)
(* RateScale fractional resolution and rounding toward zero; every other   *)
(* operation is exact on the input values the model draws, but for the       *)
(* twelfths of the annual amounts, which are cut to whole cents.           *)
(*                                                                         *)
(* Dates.  A timestamp is [ym, day, tod]: ym = year*12 + (month-1), day    *)
(* the day of the month, tod the time of day (0 = midnight).               *)
(***************************************************************************)
EXTENDS Integers, Sequences, FiniteSets

(***************************************************************************)
(* Bounds of the model.                                                    *)
(***************************************************************************)
\* most records the session list may hold before the form is left alone
MaxExpenses == 2
\* most advances of the wall clock during a session
MaxTick == 2
\* the fixed-point powers carry ScaleRoot^2 as their denominator
ScaleRoot == 10000

(***************************************************************************)
(* Program constants.                                                      *)
(***************************************************************************)
\* pd.date_range(..., periods=72, ...)
Periods == 72
\* resolution of the fixed-point powers
RateScale == ScaleRoot * ScaleRoot
\* money is counted in cents
Dollars(x) == x * 100

(***************************************************************************)
(* Exact integer helpers.                                                  *)
(***************************************************************************)
Max(a, b) == IF a >= b THEN a ELSE b

\* <<q, r>> with a*b = q*d + r and 0 <= r < d, for 0 <= a < d, computed bit
\* by bit so that no intermediate value leaves the 32-bit range
RECURSIVE HornerMul(_, _, _)
HornerMul(a, b, d) ==
    IF b = 0 THEN <<0, 0>>
    ELSE LET h == HornerMul(a, b \div 2, d)
             t == 2 * h[2] + (b % 2) * a
         IN  <<2 * h[1] + t \div d, t % d>>

\* floor(a*b/d) for a, b >= 0 and d > 0
MulDiv(a, b, d) == (a \div d) * b + HornerMul(a % d, b, d)[1]

\* floor(a*b/RateScale) for 0 <= a, b < 4*RateScale, by long multiplication
\* on the two ScaleRoot-digits of each factor
MulScale(a, b) ==
    LET a1 == a \div ScaleRoot
        a0 == a % ScaleRoot
        b1 == b \div ScaleRoot
        b0 == b % ScaleRoot
    IN  a1 * b1 + (a1 * b0 + a0 * b1 + (a0 * b0) \div ScaleRoot) \div ScaleRoot

(***************************************************************************)
(* Calendar.                                                               *)
(***************************************************************************)
YM(year, month) == year * 12 + (month - 1)
Year(ym) == ym \div 12
Month(ym) == (ym % 12) + 1

IsLeap(y) == (y % 4 = 0 /\ y % 100 # 0) \/ y % 400 = 0

DaysInMonth(ym) ==
    IF Month(ym) = 2 THEN (IF IsLeap(Year(ym)) THEN 29 ELSE 28)
    ELSE IF Month(ym) \in {4, 6, 9, 11} THEN 30 ELSE 31

Timestamp(year, month, day) == [ym |-> YM(year, month), day |-> day, tod |-> 0]

\* ts.replace(day=1)
ReplaceDay1(ts) == [ts EXCEPT !.day = 1]

\* a >= b on timestamps
TsGeq(a, b) ==
    \/ a.ym > b.ym
    \/ a.ym = b.ym /\ a.day > b.day
    \/ a.ym = b.ym /\ a.day = b.day /\ a.tod >= b.tod

(***************************************************************************)
(* Fixed-point powers: (1 + num/den)^k at resolution RateScale.            *)
(***************************************************************************)
\* by repeated squaring
RECURSIVE Pow(_, _, _)
Pow(num, den, k) ==
    IF k = 0 THEN RateScale
    ELSE LET h  == Pow(num, den, k \div 2)
             h2 == MulScale(h, h)
         IN  IF k % 2 = 0 THEN h2 ELSE h2 + MulDiv(h2, num, den)

\* <<(1+num/den)^lo, ..., (1+num/den)^hi>>
RECURSIVE PowTable(_, _, _, _)
PowTable(num, den, lo, hi) ==
    IF lo = hi THEN <<Pow(num, den, lo)>>
    ELSE PowTable(num, den, lo, (lo + hi) \div 2)
         \o PowTable(num, den, (lo + hi) \div 2 + 1, hi)

\* (1 + 0.02/12) ** k for k = 0 .. Periods-1, tabulated once
AppreciationTable == PowTable(2, 1200, 0, Periods - 1)

Appreciation(k) == AppreciationTable[k + 1]

(***************************************************************************)
(* Sidebar: housing figures derived from the widgets (lines 69-160).       *)
(* interest_rate is held in tenths of a percent (the slider's step).       *)
(***************************************************************************)
down_payment(w) == MulDiv(w.house_price, w.down_payment_percent, 100)

loan_amount(w) == w.house_price - down_payment(w)

total_payments(w) == w.loan_years * 12

\* variant: the loan divided by the number of payments at any rate
LevelPaymentEqualPrincipal(w) == loan_amount(w) \div total_payments(w)

\* loan_amount * (c * (1 + c) ** n) / ((1 + c) ** n - 1), or loan_amount / n
LevelPayment(w) ==
    IF w.interest_rate > 0
    THEN LET q  == Pow(w.interest_rate, 12000, total_payments(w))
             cq == MulDiv(q, w.interest_rate, 12000)
         IN  MulDiv(loan_amount(w), cq, q - RateScale)
    ELSE loan_amount(w) \div total_payments(w)

monthly_mortgage(w) ==
    CASE w.housing_status = "owned"   -> w.monthly_mortgage
      [] w.housing_status = "planned" -> LevelPayment(w)
      [] OTHER                        -> 0

\* variant: the top tier is charged at the rate of the third
calculate_bsdThreeTiers(price) ==
    IF price <= Dollars(180000) THEN price \div 100
    ELSE IF price <= Dollars(360000)
         THEN Dollars(180000) \div 100 + (price - Dollars(180000)) \div 50
    ELSE Dollars(180000) \div 100 + Dollars(180000) \div 50
         + MulDiv(price - Dollars(360000), 3, 100)

\* the tier rates 0.01, 0.02, 0.03 and 0.04 are divisions by 100, 50, 100/3, 25
calculate_bsd(price) ==
    IF price <= Dollars(180000) THEN price \div 100
    ELSE IF price <= Dollars(360000)
         THEN Dollars(180000) \div 100 + (price - Dollars(180000)) \div 50
    ELSE IF price <= Dollars(1000000)
         THEN Dollars(180000) \div 100 + Dollars(180000) \div 50
              + MulDiv(price - Dollars(360000), 3, 100)
    ELSE Dollars(180000) \div 100 + Dollars(180000) \div 50
         + MulDiv(Dollars(640000), 3, 100) + (price - Dollars(1000000)) \div 25

\* absd_rates, in percent
absd_rates(buyer_status) ==
    CASE buyer_status = "citizen_first"      -> 0
      [] buyer_status = "citizen_additional" -> 17
      [] buyer_status = "pr_first"           -> 5
      [] buyer_status = "pr_additional"      -> 25
      [] buyer_status = "foreigner"          -> 30

absd(w) == MulDiv(w.house_price, absd_rates(w.buyer_status), 100)

\* the two fee inputs exist only while the checkbox is ticked
legal_fees(w) == IF w.include_legal_fees THEN w.legal_fees ELSE 0

other_fees(w) == IF w.include_legal_fees THEN w.other_fees ELSE 0

total_taxes_fees(w) ==
    calculate_bsd(w.house_price) + absd(w) + legal_fees(w) + other_fees(w)

total_cash_outlay(w) == down_payment(w) + total_taxes_fees(w)

(***************************************************************************)
(* tab1: the projection table (lines 197-436).  Columns are functions of   *)
(* the row number 0 .. Periods-1.                                          *)
(***************************************************************************)
Rows == 0..(Periods - 1)

\* datetime.now().replace(day=1)
start_date(now) == ReplaceDay1(now)

\* pd.date_range(start=start_date, periods=72, freq='M'): freq 'M' is the
\* month-END frequency, and the time of day of the start is kept
months(now) ==
    LET first == start_date(now)
    IN  [i \in Rows |-> [ym  |-> first.ym + i,
                         day |-> DaysInMonth(first.ym + i),
                         tod |-> first.tod]]

\* ts in df.index (exact match of the timestamp)
InIndex(ts, index) == \E i \in Rows : index[i] = ts

\* df.index.get_loc(ts), for ts in the index
GetLoc(ts, index) == CHOOSE i \in Rows : index[i] = ts

\* (df.index.year - birth.year) * 12 + df.index.month - birth.month
ChildAgeMonths(ts, birth) ==
    (Year(ts.ym) - Year(birth.ym)) * 12 + Month(ts.ym) - Month(birth.ym)

(***************************************************************************)
(* Already owned (lines 221-250).                                          *)
(***************************************************************************)
\* remaining_months = outstanding_loan / monthly_mortgage, kept as a
\* fraction <<numerator, denominator>>
remaining_months(w) == <<w.outstanding_loan, w.monthly_mortgage>>

\* the float division outstanding_loan / remaining_months raises
\* ZeroDivisionError when remaining_months is 0.0
OwnedRaises(w) == w.monthly_mortgage > 0 /\ remaining_months(w)[1] = 0

monthly_principal(w) ==
    IF w.monthly_mortgage > 0
    THEN MulDiv(w.outstanding_loan, remaining_months(w)[2], remaining_months(w)[1])
    ELSE 0

\* variant: the balance keeps falling below 0
OwnedLoanStepUnclamped(w, principal, current_loan, i) ==
    IF i = 0 THEN current_loan ELSE current_loan - principal

\* one turn of the loop of lines 243-248; current_loan is the balance so far
OwnedLoanStep(w, principal, current_loan, i) ==
    IF i = 0 THEN current_loan ELSE Max(0, current_loan - principal)

OwnedPropertyValue(w, i) == MulScale(w.property_value, Appreciation(i))

(***************************************************************************)
(* Planned purchase (lines 252-321).                                       *)
(***************************************************************************)
\* rows on or after ts: [date for date in df.index if date >= ts]
future_dates(ts, index) == {i \in Rows : TsGeq(index[i], ts)}

MinRow(S) == CHOOSE i \in S : \A j \in S : i <= j

\* variant: the purchase date is moved on to the start of the next month
purchase_monthForward(w, index) ==
    LET pm == [ym |-> w.house_purchase_date.ym + 1, day |-> 1, tod |-> 0]
    IN  IF InIndex(pm, index) THEN pm
        ELSE IF future_dates(pm, index) # {}
             THEN index[MinRow(future_dates(pm, index))]
             ELSE pm

\* the purchase month after the search for the next available date
purchase_month(w, index) ==
    LET pm == ReplaceDay1(w.house_purchase_date)
    IN  IF InIndex(pm, index) THEN pm
        ELSE IF future_dates(pm, index) # {}
             THEN index[MinRow(future_dates(pm, index))]
             ELSE pm

\* df.index.get_loc(purchase_month) when the purchase month is in the index
\* (line 275), -1 when it is not and the whole block is skipped
purchase_index(w, index) ==
    LET pm == purchase_month(w, index)
    IN  IF w.housing_status = "planned" /\ InIndex(pm, index) THEN GetLoc(pm, index) ELSE -1

\* variant: the balance keeps falling once the loan is paid off
PlannedLoanStepUnclamped(rate, payment, current_loan, i, p) ==
    IF i = p THEN current_loan
    ELSE current_loan - (payment - MulDiv(current_loan, rate, 12000))

\* one turn of the loop of lines 309-318, for a row i >= purchase_index
PlannedLoanStep(rate, payment, current_loan, i, p) ==
    IF i = p THEN current_loan
    ELSE LET interest_payment  == MulDiv(current_loan, rate, 12000)
             principal_payment == payment - interest_payment
         IN  Max(0, current_loan - principal_payment)

\* variant: the price appreciates from the first row of the table
PlannedPropertyValueFromStart(w, i, p) ==
    IF i >= p THEN MulScale(w.house_price, Appreciation(i)) ELSE 0

\* house_price * (1 + 0.02/12) ** months_since_purchase from the purchase row
PlannedPropertyValue(w, i, p) ==
    IF i >= p THEN MulScale(w.house_price, Appreciation(i - p)) ELSE 0

\* variant: the payments start the month after the purchase
PlannedMortgageLate(payment, index, i, p) ==
    IF TsGeq(index[i], index[p]) /\ index[i] # index[p] THEN payment ELSE 0

\* mortgage_mask = df.index >= purchase_month
PlannedMortgage(payment, index, i, p) ==
    IF TsGeq(index[i], index[p]) THEN payment ELSE 0

(***************************************************************************)
(* tab2: the one-time expenses (lines 381-417).                            *)
(***************************************************************************)
\* expense_df.sort_values('date'), by insertion
RECURSIVE SortByDate(_)
SortByDate(exps) ==
    IF Len(exps) <= 1 THEN exps
    ELSE LET last   == exps[Len(exps)]
             sorted == SortByDate(SubSeq(exps, 1, Len(exps) - 1))
             before == SelectSeq(sorted, LAMBDA e : TsGeq(last.date, e.date))
             after  == SelectSeq(sorted, LAMBDA e : ~TsGeq(last.date, e.date))
         IN  before \o <<last>> \o after

\* variant: an expense past the last month is put on the last row
ExpenseRowClamped(expense, index) ==
    LET expense_month == ReplaceDay1(expense.date)
    IN  IF InIndex(expense_month, index) THEN GetLoc(expense_month, index)
        ELSE IF expense_month.ym > index[Periods - 1].ym THEN Periods - 1 ELSE -1

\* the row an expense is added to, or -1 when its month is not in df.index
ExpenseRow(expense, index) ==
    LET expense_month == ReplaceDay1(expense.date)
    IN  IF InIndex(expense_month, index) THEN GetLoc(expense_month, index) ELSE -1

\* the loop over expense_df.iterrows(), from record k on
RECURSIVE MergeExpenses(_, _, _, _)
MergeExpenses(col, expense_df, index, k) ==
    IF k > Len(expense_df) THEN col
    ELSE LET r == ExpenseRow(expense_df[k], index)
         IN  MergeExpenses(
                 IF r >= 0 THEN [col EXCEPT ![r] = @ + expense_df[k].amount] ELSE col,
                 expense_df, index, k + 1)

\* the housing outlay of the purchase month (lines 275-289)
HousingDownPayment(down, i, p) == IF i = p THEN down ELSE 0

HousingTaxesFees(fees, i, p) == IF i = p THEN fees ELSE 0

\* the OneTimeExpenses column: the outlay first, then the user's records
OneTimeExpenses(down, fees, exps, index, p) ==
    MergeExpenses([i \in Rows |-> HousingDownPayment(down, i, p)
                                  + HousingTaxesFees(fees, i, p)],
                  SortByDate(exps), index, 1)

(***************************************************************************)
(* Education fees and recurring amounts (lines 323-352).                   *)
(***************************************************************************)
\* variant: the childcare tier opens one month late
ChildcareExpenseLate(w, age) == IF age > 6 /\ age < 48 THEN w.childcare_monthly ELSE 0

ChildcareExpense(w, age) == IF age >= 6 /\ age < 48 THEN w.childcare_monthly ELSE 0

PreschoolExpense(w, age) == IF age >= 48 /\ age < 84 THEN w.preschool_monthly ELSE 0

PrimarySchoolExpense(w, age) == IF age >= 84 THEN w.primary_school_monthly ELSE 0

\* variant: the recurring expense starts with the first education fee
MonthlyChildExpensesFromChildcare(w, age) ==
    IF age >= 6 THEN w.monthly_child_expenses ELSE 0

\* np.where(df['ChildAgeMonths'] >= 0, monthly_child_expenses, 0)
MonthlyChildExpenses(w, age) == IF age >= 0 THEN w.monthly_child_expenses ELSE 0

Bonus(w, ts) == IF Month(ts.ym) = 12 THEN w.annual_bonus ELSE 0

(***************************************************************************)
(* The columns of one row.  c holds what the script computed once for the  *)
(* whole table, prev is the row above (unused for row 0).                  *)
(***************************************************************************)
MonthlyMortgage(w, c, i) ==
    CASE w.housing_status = "owned" -> c.payment
      [] c.p >= 0                   -> PlannedMortgage(c.payment, c.index, i, c.p)
      [] OTHER                      -> 0

PropertyValue(w, c, i) ==
    CASE w.housing_status = "owned" -> OwnedPropertyValue(w, i)
      [] c.p >= 0                   -> PlannedPropertyValue(w, i, c.p)
      [] OTHER                      -> 0

\* the OutstandingLoan column; the column is 0.0 wherever no loop writes it
OutstandingLoan(w, c, prev, i) ==
    CASE w.housing_status = "owned" ->
             OwnedLoanStep(w, c.principal,
                           IF i = 0 THEN w.outstanding_loan ELSE prev.OutstandingLoan, i)
      [] c.p >= 0 /\ w.interest_rate > 0 /\ i >= c.p ->
             PlannedLoanStep(w.interest_rate, c.payment,
                             IF i = c.p THEN loan_amount(w) ELSE prev.OutstandingLoan,
                             i, c.p)
      [] OTHER -> 0

\* variant: equity is never reported below 0
PropertyEquityFloored(value, loan) == Max(0, value - loan)

\* df['PropertyEquity'] = df['PropertyValue'] - df['OutstandingLoan'] (lines
\* 250 and 321); where neither line runs the three columns are all 0.0
PropertyEquity(value, loan) == value - loan

\* df['TotalAssets'] (line 436)
TotalAssets(cumul, equity) == cumul + equity

\* df['TotalMonthlyExpenses'] (lines 421-424)
TotalMonthlyExpenses(mortgage, expenses, child, insurance, tax, education, onetime) ==
    mortgage + expenses + child + insurance + tax + education + onetime

\* variant: a month cannot save less than nothing
MonthlySavingsFloored(income, bonus, total) == Max(0, income + bonus - total)

\* df['MonthlySavings'] (line 426)
MonthlySavings(income, bonus, total) == income + bonus - total

\* variant: the running total is floored at 0
CumulativeSavingsClamped(w, prev, savings, i) ==
    IF i = 0 THEN w.initial_funds ELSE Max(0, prev.CumulativeSavings + savings)

\* df['CumulativeSavings'] = initial_funds, then the loop over range(1, len(df))
CumulativeSavings(w, prev, savings, i) ==
    IF i = 0 THEN w.initial_funds ELSE prev.CumulativeSavings + savings

Row(w, c, prev, i) ==
    LET ts       == c.index[i]
        age      == ChildAgeMonths(ts, w.child_birth_date)
        mortgage == MonthlyMortgage(w, c, i)
        value    == PropertyValue(w, c, i)
        loan     == OutstandingLoan(w, c, prev, i)
        edu      == ChildcareExpense(w, age) + PreschoolExpense(w, age)
                    + PrimarySchoolExpense(w, age)
        total    == TotalMonthlyExpenses(mortgage, w.monthly_expenses,
                                         MonthlyChildExpenses(w, age),
                                         w.annual_insurance \div 12, w.annual_tax \div 12,
                                         edu, c.onetime[i])
        savings  == MonthlySavings(w.monthly_income, Bonus(w, ts), total)
        cumul    == CumulativeSavings(w, prev, savings, i)
    IN  [index                  |-> ts,
         Year                   |-> Year(ts.ym),
         Month                  |-> Month(ts.ym),
         ChildAgeMonths         |-> age,
         MonthlyIncome          |-> w.monthly_income,
         MonthlyMortgage        |-> mortgage,
         PropertyValue          |-> value,
         OutstandingLoan        |-> loan,
         PropertyEquity         |-> PropertyEquity(value, loan),
         HousingDownPayment     |-> HousingDownPayment(c.down, i, c.p),
         HousingTaxesFees       |-> HousingTaxesFees(c.fees, i, c.p),
         MonthlyExpenses        |-> w.monthly_expenses,
         ChildcareExpense       |-> ChildcareExpense(w, age),
         PreschoolExpense       |-> PreschoolExpense(w, age),
         PrimarySchoolExpense   |-> PrimarySchoolExpense(w, age),
         MonthlyChildExpenses   |-> MonthlyChildExpenses(w, age),
         MonthlyInsurance       |-> w.annual_insurance \div 12,
         MonthlyTax             |-> w.annual_tax \div 12,
         Bonus                  |-> Bonus(w, ts),
         OneTimeExpenses        |-> c.onetime[i],
         TotalEducationExpenses |-> edu,
         TotalMonthlyExpenses   |-> total,
         MonthlySavings         |-> savings,
         CumulativeSavings      |-> cumul,
         TotalAssets            |-> TotalAssets(cumul, PropertyEquity(value, loan))]

\* rows lo .. hi, as a sequence, given the row above row lo; the rows are
\* computed top to bottom, the range being halved to keep the evaluation flat
RECURSIVE RowsFrom(_, _, _, _, _)
RowsFrom(w, c, prev, lo, hi) ==
    IF lo = hi THEN <<Row(w, c, prev, lo)>>
    ELSE LET mid   == (lo + hi) \div 2
             upper == RowsFrom(w, c, prev, lo, mid)
         IN  upper \o RowsFrom(w, c, upper[Len(upper)], mid + 1, hi)

(***************************************************************************)
(* One run of the script: [raised, df].  A run that raises shows the       *)
(* exception instead of the table, so it leaves no rows.                   *)
(***************************************************************************)
Projection(w, exps, now) ==
    LET index == months(now)
        p     == purchase_index(w, index)
        down  == IF w.housing_status = "planned" THEN down_payment(w) ELSE 0
        fees  == IF w.housing_status = "planned" THEN total_taxes_fees(w) ELSE 0
        c     == [index     |-> index,
                  p         |-> p,
                  payment   |-> monthly_mortgage(w),
                  principal |-> IF w.housing_status = "owned" THEN monthly_principal(w) ELSE 0,
                  down      |-> down,
                  fees      |-> fees,
                  onetime   |-> OneTimeExpenses(down, fees, exps, index, p)]
        rows  == RowsFrom(w, c, <<>>, 0, Periods - 1)
    IN  [i \in Rows |-> rows[i + 1]]

RunScript(w, exps, now) ==
    IF w.housing_status = "owned" /\ OwnedRaises(w)
    THEN [raised |-> TRUE, df |-> <<>>]
    ELSE [raised |-> FALSE, df |-> Projection(w, exps, now)]

(***************************************************************************)
(* The session.                                                            *)
(***************************************************************************)
VARIABLES
    tick,               \* the wall clock: datetime.now() is Now(tick)
    w,                  \* the values held by the sidebar widgets
    one_time_expenses,  \* st.session_state.one_time_expenses
    raised,             \* whether the last run of the script raised
    df,                 \* the projection table of the last run that built one
    expense_date_default, \* the date the form of tab2 proposed in the last run
    rerun_requested     \* st.experimental_rerun() was called and the run it
                        \* asks for has not started

vars == <<tick, w, one_time_expenses, raised, df, expense_date_default,
          rerun_requested>>

\* datetime.now(): 2026-10-30 in the day, 2026-11-01 at midnight, 2026-11-30 ...
Now(t) ==
    [ym  |-> YM(2026, 10) + (t + 1) \div 2,
     day |-> IF t % 2 = 0 THEN 30 ELSE 1,
     tod |-> (t + 1) % 2]

\* d + timedelta(days=n)
RECURSIVE AddDays(_, _)
AddDays(d, n) ==
    IF n >= 0
    THEN IF d.day + n <= DaysInMonth(d.ym) THEN [d EXCEPT !.day = d.day + n]
         ELSE AddDays([d EXCEPT !.ym = d.ym + 1, !.day = 1],
                      n - (DaysInMonth(d.ym) - d.day + 1))
    ELSE IF d.day + n >= 1 THEN [d EXCEPT !.day = d.day + n]
         ELSE AddDays([d EXCEPT !.ym = d.ym - 1, !.day = DaysInMonth(d.ym - 1)],
                      n + d.day)

\* what st.date_input keeps of a datetime: its date
Date(d) == [d EXCEPT !.tod = 0]

\* the values the inputs are drawn from
HousingStatuses == {"planned", "owned", "none"}
MortgageChoices == {0, Dollars(1500)}
LoanChoices == {0, Dollars(60000)}
PurchaseDates ==
    {Timestamp(2025, 5, 1), Timestamp(2026, 9, 30), Timestamp(2027, 12, 31),
     Timestamp(2033, 6, 1)}
\* in tenths of a percent: the slider offers 1.0 .. 5.0 in steps of 0.1
InterestRates == {10, 25}
ChildStatuses == {"born", "expected", "planned"}
BirthDates == {Timestamp(2027, 1, 20), Timestamp(2020, 2, 10)}
ExpenseNames == {"", "delivery"}
ExpenseAmounts == {0, Dollars(300)}
ExpenseDates == {Timestamp(2026, 9, 30), Timestamp(2027, 12, 31), Timestamp(2033, 1, 10)}
ExpenseCategories == {"other"}
\* the tier boundaries of the stamp duty, one dollar past each, and the default
HousePrices ==
    {0, Dollars(180000), Dollars(180001), Dollars(360000), Dollars(360001),
     Dollars(1000000), Dollars(1000001), Dollars(1700000)}
BuyerStatuses ==
    {"citizen_first", "citizen_additional", "pr_first", "pr_additional", "foreigner"}
\* the slider offers 5 .. 30
LoanYears == {5, 20}
\* the slider offers 5 .. 50
DownPaymentPercents == {25, 50}
PropertyValues == {Dollars(500000), Dollars(40000)}
LegalFeeChoices == {0, Dollars(6000)}
OtherFeeChoices == {0, Dollars(2000)}
InitialFunds == {0, Dollars(500000)}
MonthlyIncomes == {Dollars(5000), Dollars(11000)}
MonthlyExpenses == {0, Dollars(2000)}
ChildExpenseChoices == {0, Dollars(500)}
InsuranceChoices == {0, Dollars(5000)}
TaxChoices == {0, Dollars(7000)}
BonusChoices == {0, Dollars(30000)}
ChildcareFees == {0, Dollars(1000)}
PreschoolFees == {0, Dollars(1200)}
PrimarySchoolFees == {0, Dollars(300)}

\* the widgets of a housing mode show their initial value when the mode is
\* selected: a widget that is not drawn in a run loses its state
HousingWidgets(h) ==
    [housing_status       |-> h,
     monthly_mortgage     |-> Dollars(1500),
     property_value       |-> Dollars(500000),
     outstanding_loan     |-> Dollars(300000),
     house_purchase_date  |-> Timestamp(2025, 5, 1),
     house_price          |-> Dollars(1700000),
     down_payment_percent |-> 25,
     loan_years           |-> 20,
     interest_rate        |-> 25,
     buyer_status         |-> "citizen_first",
     include_legal_fees   |-> TRUE,
     legal_fees           |-> Dollars(6000),
     other_fees           |-> Dollars(2000)]

\* the value the date input of a child status proposes (lines 184-189)
ChildBirthDefault(status, now) ==
    CASE status = "born"     -> Date(AddDays(now, -365))
      [] status = "expected" -> Date(AddDays(now, 90))
      [] status = "planned"  -> Timestamp(2026, 12, 1)

\* child_birth_default is the value the date input was last drawn with
OtherWidgets(now) ==
    [initial_funds          |-> Dollars(500000),
     monthly_income         |-> Dollars(11000),
     monthly_expenses       |-> Dollars(2000),
     monthly_child_expenses |-> Dollars(500),
     annual_insurance       |-> Dollars(5000),
     annual_tax             |-> Dollars(7000),
     annual_bonus           |-> Dollars(30000),
     childcare_monthly      |-> Dollars(1000),
     preschool_monthly      |-> Dollars(1200),
     primary_school_monthly |-> Dollars(300),
     child_status           |-> "born",
     child_birth_default    |-> ChildBirthDefault("born", now),
     child_birth_date       |-> ChildBirthDefault("born", now)]

\* record union
Merge(r1, r2) ==
    [f \in (DOMAIN r1) \cup (DOMAIN r2) |-> IF f \in DOMAIN r1 THEN r1[f] ELSE r2[f]]

\* the value the date input of the form proposes (line 365)
ExpenseDateDefault(now) == Date(AddDays(now, 30))

\* the date a run at the moment now reads from a submitted form: the date
\* entered when the input is the one the form was drawn with, the date now
\* proposed when it is a new widget
ExpenseDateRead(date, drawn_with, now) ==
    IF ExpenseDateDefault(now) = drawn_with THEN date ELSE ExpenseDateDefault(now)

\* the widgets as a run at the moment now draws them: a date input whose
\* proposed value is no longer the one it was drawn with is a new widget,
\* which shows the value now proposed
Drawn(widgets, now) ==
    LET d == ChildBirthDefault(widgets.child_status, now)
    IN  IF d = widgets.child_birth_default THEN widgets
        ELSE [widgets EXCEPT !.child_birth_default = d, !.child_birth_date = d]

\* variant: the table is dated from the moment the session began
RerunAtStart(widgets, exps, t) ==
    \E run \in {RunScript(widgets, exps, Now(0))} :
        /\ raised' = run.raised
        /\ df' = run.df
        /\ expense_date_default' = ExpenseDateDefault(Now(t))
        /\ rerun_requested' = FALSE

\* what every interaction ends with: the script runs to its end
Rerun(widgets, exps, t) ==
    \E run \in {RunScript(widgets, exps, Now(t))} :
        /\ raised' = run.raised
        /\ df' = run.df
        /\ expense_date_default' = ExpenseDateDefault(Now(t))
        /\ rerun_requested' = FALSE

\* the first run of the script: every widget shows the value it proposes
Init ==
    /\ tick = 0
    /\ w = Merge(HousingWidgets("planned"), OtherWidgets(Now(tick)))
    /\ one_time_expenses = <<>>
    /\ \E run \in {RunScript(w, one_time_expenses, Now(tick))} :
           /\ raised = run.raised
           /\ df = run.df
    /\ expense_date_default = ExpenseDateDefault(Now(tick))
    /\ rerun_requested = FALSE

\* time passes; nothing is recomputed until the next interaction
Tick ==
    /\ tick < MaxTick
    /\ tick' = tick + 1
    /\ UNCHANGED <<w, one_time_expenses, raised, df, expense_date_default,
                   rerun_requested>>

\* st.radio("住房状态", ...)
SelectHousingStatus(h) ==
    /\ h # w.housing_status
    /\ \E widgets \in {Drawn(Merge(HousingWidgets(h), w), Now(tick))} :
           /\ w' = widgets
           /\ Rerun(widgets, one_time_expenses, tick)
    /\ UNCHANGED <<tick, one_time_expenses>>

\* a sidebar input that is drawn gets a new value
SetWidget(field, value) ==
    /\ w[field] # value
    /\ \E widgets \in {Drawn([w EXCEPT ![field] = value], Now(tick))} :
           /\ w' = widgets
           /\ Rerun(widgets, one_time_expenses, tick)
    /\ UNCHANGED <<tick, one_time_expenses>>

SetInitialFunds(v) == SetWidget("initial_funds", v)

SetMonthlyMortgage(v) == w.housing_status = "owned" /\ SetWidget("monthly_mortgage", v)

SetOutstandingLoan(v) == w.housing_status = "owned" /\ SetWidget("outstanding_loan", v)

SetPropertyValue(v) == w.housing_status = "owned" /\ SetWidget("property_value", v)

SetPurchaseDate(d) == w.housing_status = "planned" /\ SetWidget("house_purchase_date", d)

SetHousePrice(v) == w.housing_status = "planned" /\ SetWidget("house_price", v)

SetDownPaymentPercent(p) ==
    w.housing_status = "planned" /\ SetWidget("down_payment_percent", p)

SetLoanYears(y) == w.housing_status = "planned" /\ SetWidget("loan_years", y)

SetInterestRate(r) == w.housing_status = "planned" /\ SetWidget("interest_rate", r)

SetBuyerStatus(b) == w.housing_status = "planned" /\ SetWidget("buyer_status", b)

\* the checkbox of line 138: the two fee inputs are drawn under it alone,
\* and show their initial value when it is ticked again
SetIncludeLegalFees(b) ==
    /\ w.housing_status = "planned"
    /\ b # w.include_legal_fees
    /\ \E widgets \in {Drawn([w EXCEPT !.include_legal_fees = b,
                                       !.legal_fees = Dollars(6000),
                                       !.other_fees = Dollars(2000)], Now(tick))} :
           /\ w' = widgets
           /\ Rerun(widgets, one_time_expenses, tick)
    /\ UNCHANGED <<tick, one_time_expenses>>

SetLegalFees(v) ==
    w.housing_status = "planned" /\ w.include_legal_fees /\ SetWidget("legal_fees", v)

SetOtherFees(v) ==
    w.housing_status = "planned" /\ w.include_legal_fees /\ SetWidget("other_fees", v)

SetMonthlyIncome(v) == SetWidget("monthly_income", v)

SetMonthlyExpenses(v) == SetWidget("monthly_expenses", v)

SetMonthlyChildExpenses(v) == SetWidget("monthly_child_expenses", v)

SetAnnualInsurance(v) == SetWidget("annual_insurance", v)

SetAnnualTax(v) == SetWidget("annual_tax", v)

SetAnnualBonus(v) == SetWidget("annual_bonus", v)

SetChildcareMonthly(v) == SetWidget("childcare_monthly", v)

SetPreschoolMonthly(v) == SetWidget("preschool_monthly", v)

SetPrimarySchoolMonthly(v) == SetWidget("primary_school_monthly", v)

\* st.radio("小孩状态", ...): each status draws a date input of its own
SelectChildStatus(s) ==
    /\ s # w.child_status
    /\ \E d \in {ChildBirthDefault(s, Now(tick))} :
       \E widgets \in {[w EXCEPT !.child_status = s, !.child_birth_default = d,
                                 !.child_birth_date = d]} :
           /\ w' = widgets
           /\ Rerun(widgets, one_time_expenses, tick)
    /\ UNCHANGED <<tick, one_time_expenses>>

SetChildBirthDate(d) == SetWidget("child_birth_date", d)

\* variant: whatever the form holds is appended
SubmitExpenseUnchecked(name, amount, date, category) ==
    /\ ~raised
    /\ Len(one_time_expenses) < MaxExpenses
    /\ \E exps \in {Append(one_time_expenses,
                            [name |-> name, amount |-> amount,
                             date |-> ExpenseDateRead(date, expense_date_default,
                                                      Now(tick)),
                             category |-> category])},
          widgets \in {Drawn(w, Now(tick))} :
           /\ one_time_expenses' = exps
           /\ w' = widgets
           /\ Rerun(widgets, exps, tick)
    /\ UNCHANGED tick

\* the form of tab2 is submitted (lines 359-378); tab2 is drawn only by a
\* run that got that far, and the run that reads the form reads its date
\* input as ExpenseDateRead has it
SubmitExpense(name, amount, date, category) ==
    /\ ~raised
    /\ Len(one_time_expenses) < MaxExpenses
    /\ \E exps \in {IF name # "" /\ amount > 0
                      THEN Append(one_time_expenses,
                                  [name |-> name, amount |-> amount,
                                   date |-> ExpenseDateRead(date, expense_date_default,
                                                            Now(tick)),
                                   category |-> category])
                      ELSE one_time_expenses},
          widgets \in {Drawn(w, Now(tick))} :
           /\ one_time_expenses' = exps
           /\ w' = widgets
           /\ Rerun(widgets, exps, tick)
    /\ UNCHANGED tick

\* the clear button (lines 401-403), drawn only under a non-empty list: the
\* run of the click draws the widgets and the form, empties the list and
\* stops at st.experimental_rerun(), before the totals of lines 416-436
ClearExpenses ==
    /\ ~raised
    /\ one_time_expenses # <<>>
    /\ one_time_expenses' = <<>>
    /\ w' = Drawn(w, Now(tick))
    /\ expense_date_default' = ExpenseDateDefault(Now(tick))
    /\ rerun_requested' = TRUE
    /\ UNCHANGED <<tick, raised, df>>

\* the run st.experimental_rerun() asked for: the script runs from the top,
\* at the moment it starts
ExperimentalRerun ==
    /\ rerun_requested
    /\ \E widgets \in {Drawn(w, Now(tick))} :
           /\ w' = widgets
           /\ Rerun(widgets, one_time_expenses, tick)
    /\ UNCHANGED <<tick, one_time_expenses>>

\* a session on the dates of the plan and the list of one-time expenses
Next ==
    \/ \E h \in HousingStatuses : SelectHousingStatus(h)
    \/ \E v \in MortgageChoices : SetMonthlyMortgage(v)
    \/ \E v \in LoanChoices : SetOutstandingLoan(v)
    \/ \E d \in PurchaseDates : SetPurchaseDate(d)
    \/ \E r \in InterestRates : SetInterestRate(r)
    \/ \E n \in ExpenseNames, a \in ExpenseAmounts, d \in ExpenseDates,
          c \in ExpenseCategories :
            \* the date of a submission that is refused plays no part
            /\ (n = "" \/ a = 0) => d = Timestamp(2027, 12, 31)
            /\ SubmitExpense(n, a, d, c)
    \/ ClearExpenses
    \/ ExperimentalRerun

Spec == Init /\ [][Next]_vars

\* a session that lasts while the clock moves on: interactions on the child
\* status and the expense list, at any of the moments Now(0) .. Now(MaxTick)
ClockNext ==
    \/ Tick
    \/ \E c \in ChildStatuses : SelectChildStatus(c)
    \/ \E n \in ExpenseNames, a \in ExpenseAmounts, d \in ExpenseDates,
          c \in ExpenseCategories :
            /\ (n = "" \/ a = 0) => d = Timestamp(2027, 12, 31)
            /\ SubmitExpense(n, a, d, c)
    \/ ClearExpenses
    \/ ExperimentalRerun

ClockSpec == Init /\ [][ClockNext]_vars

\* a session spent on the financing inputs of the sidebar
SidebarNext ==
    \/ \E h \in HousingStatuses : SelectHousingStatus(h)
    \/ \E v \in HousePrices : SetHousePrice(v)
    \/ \E b \in BuyerStatuses : SetBuyerStatus(b)
    \/ \E y \in LoanYears : SetLoanYears(y)
    \/ \E r \in InterestRates : SetInterestRate(r)
    \/ \E p \in DownPaymentPercents : SetDownPaymentPercent(p)
    \/ \E v \in PropertyValues : SetPropertyValue(v)
    \/ \E v \in LoanChoices : SetOutstandingLoan(v)
    \/ \E v \in MortgageChoices : SetMonthlyMortgage(v)

SidebarSpec == Init /\ [][SidebarNext]_vars

\* a session spent on what the purchase costs and on the funds at hand
CostsNext ==
    \/ \E v \in InitialFunds : SetInitialFunds(v)
    \/ \E d \in PurchaseDates : SetPurchaseDate(d)
    \/ \E b \in BuyerStatuses : SetBuyerStatus(b)
    \/ \E b \in BOOLEAN : SetIncludeLegalFees(b)
    \/ \E v \in LegalFeeChoices : SetLegalFees(v)
    \/ \E v \in OtherFeeChoices : SetOtherFees(v)

CostsSpec == Init /\ [][CostsNext]_vars

\* a session spent on the recurring amounts of the household
BudgetNext ==
    \/ \E h \in HousingStatuses : SelectHousingStatus(h)
    \/ \E v \in MonthlyIncomes : SetMonthlyIncome(v)
    \/ \E v \in MonthlyExpenses : SetMonthlyExpenses(v)
    \/ \E v \in ChildExpenseChoices : SetMonthlyChildExpenses(v)
    \/ \E v \in InsuranceChoices : SetAnnualInsurance(v)
    \/ \E v \in TaxChoices : SetAnnualTax(v)
    \/ \E v \in BonusChoices : SetAnnualBonus(v)

BudgetSpec == Init /\ [][BudgetNext]_vars

\* a session spent on the child and the fees of its education
ChildNext ==
    \/ \E s \in ChildStatuses : SelectChildStatus(s)
    \/ \E d \in BirthDates : SetChildBirthDate(d)
    \/ \E v \in ChildExpenseChoices : SetMonthlyChildExpenses(v)
    \/ \E v \in ChildcareFees : SetChildcareMonthly(v)
    \/ \E v \in PreschoolFees : SetPreschoolMonthly(v)
    \/ \E v \in PrimarySchoolFees : SetPrimarySchoolMonthly(v)

ChildSpec == Init /\ [][ChildNext]_vars

(***************************************************************************)
(* Properties.  They are stated on the table of the last run, df, against  *)
(* the widgets and the session list that run read; the dates of the table  *)
(* are its own index.                                                      *)
(***************************************************************************)
\* sum of the amounts of the records whose date lies in the calendar months
\* lo .. hi
RECURSIVE SumAmounts(_, _, _)
SumAmounts(exps, lo, hi) ==
    IF exps = <<>> THEN 0
    ELSE (IF lo <= Head(exps).date.ym /\ Head(exps).date.ym <= hi
          THEN Head(exps).amount ELSE 0)
         + SumAmounts(Tail(exps), lo, hi)

RECURSIVE SumRows(_, _)
SumRows(col, i) == IF i < 0 THEN 0 ELSE col[i] + SumRows(col, i - 1)

\* the part of a row's one-time expenses that is not tagged as housing outlay
UserPart(i) == df[i].OneTimeExpenses - df[i].HousingDownPayment - df[i].HousingTaxesFees

FirstYM == df[0].index.ym
LastYM == df[Periods - 1].index.ym

\* the row of the earliest month that is not before the month of the purchase
\* date, -1 when there is none or no purchase is planned
ExpectedPurchaseRow ==
    IF w.housing_status # "planned" \/ w.house_purchase_date.ym > LastYM THEN -1
    ELSE IF w.house_purchase_date.ym <= FirstYM THEN 0
    ELSE w.house_purchase_date.ym - FirstYM

\* C1: the first row's cumulative savings are the initial funds plus the
\* first row's monthly savings
C1_SeedIncludesMonthZero ==
    ~raised => df[0].CumulativeSavings = w.initial_funds + df[0].MonthlySavings

\* C2: from the second row on, cumulative savings are the cumulative savings
\* of the row above plus the row's monthly savings, of either sign
C2_CumulativeRecurrence ==
    ~raised =>
        \A i \in 1..(Periods - 1) :
            df[i].CumulativeSavings = df[i - 1].CumulativeSavings + df[i].MonthlySavings

\* a row with negative monthly savings that takes the running total below 0
C2_Witness ==
    /\ ~raised
    /\ \E i \in 1..(Periods - 1) :
           /\ df[i].MonthlySavings < 0
           /\ df[i - 1].CumulativeSavings >= 0
           /\ df[i].CumulativeSavings < 0

\* C3: every row's user part is the sum of the amounts of the user's
\* expenses dated in the row's calendar month (the first row may hold more)
C3_ExpensesLandInTheirMonth ==
    ~raised =>
        \A i \in Rows :
            LET mine == SumAmounts(one_time_expenses, df[i].index.ym, df[i].index.ym)
            IN  IF i = 0 THEN UserPart(i) >= mine ELSE UserPart(i) = mine

\* C4: the amounts of the user's expenses dated before the first month are
\* part of the first row's one-time expenses
C4_EarlyExpenseSnapsToMonthZero ==
    ~raised => UserPart(0) >= SumAmounts(one_time_expenses, 0, FirstYM - 1)

\* C5: every run completes with its 72 rows
C5_RunCompletes == ~raised /\ DOMAIN df = Rows

\* C7: in every row the child's age is the month difference to the reference
\* date, the fee of a tier is charged exactly in the tier's age range, and at
\* most one of the three fees is nonzero (the table being that of the inputs
\* at hand: no run is waiting to be made)
C7_TierByAge ==
    (~raised /\ ~rerun_requested) =>
        \A i \in Rows :
            LET r   == df[i]
                age == r.index.ym - w.child_birth_date.ym
            IN  /\ r.ChildAgeMonths = age
                /\ r.ChildcareExpense =
                       (IF 6 <= age /\ age < 48 THEN w.childcare_monthly ELSE 0)
                /\ r.PreschoolExpense =
                       (IF 48 <= age /\ age < 84 THEN w.preschool_monthly ELSE 0)
                /\ r.PrimarySchoolExpense =
                       (IF 84 <= age THEN w.primary_school_monthly ELSE 0)
                /\ Cardinality({f \in {"ChildcareExpense", "PreschoolExpense",
                                       "PrimarySchoolExpense"} : r[f] # 0}) <= 1

\* a table that crosses the ages 5, 6, 47 and 48, with the fees of each
C7_Witness ==
    /\ ~raised
    /\ \E i \in 0..(Periods - 44) :
           /\ df[i].ChildAgeMonths = 5
           /\ df[i].ChildcareExpense = 0
           /\ df[i].MonthlyChildExpenses > 0
           /\ df[i + 1].ChildcareExpense > 0
           /\ df[i + 42].ChildcareExpense > 0 /\ df[i + 42].PreschoolExpense = 0
           /\ df[i + 43].ChildcareExpense = 0 /\ df[i + 43].PreschoolExpense > 0

\* C8: without a plan every housing column is 0; an owned home pays the
\* entered mortgage in every row; a planned purchase has payment, value and
\* balance 0 before the purchase row and the level payment from it on
C8_HousingGatedOnMode ==
    ~raised =>
        \A i \in Rows :
            CASE w.housing_status = "none" ->
                     /\ df[i].MonthlyMortgage = 0
                     /\ df[i].PropertyValue = 0
                     /\ df[i].OutstandingLoan = 0
                     /\ df[i].PropertyEquity = 0
              [] w.housing_status = "owned" ->
                     df[i].MonthlyMortgage = w.monthly_mortgage
              [] OTHER ->
                     IF ExpectedPurchaseRow >= 0 /\ i >= ExpectedPurchaseRow
                     THEN df[i].MonthlyMortgage = LevelPayment(w)
                     ELSE /\ df[i].MonthlyMortgage = 0
                          /\ df[i].PropertyValue = 0
                          /\ df[i].OutstandingLoan = 0

\* a purchase inside the table: nothing the month before, the payment, the
\* price and the loan in the purchase month
C8_Witness ==
    /\ ~raised
    /\ ExpectedPurchaseRow > 0
    /\ df[ExpectedPurchaseRow - 1].MonthlyMortgage = 0
    /\ df[ExpectedPurchaseRow].MonthlyMortgage > 0
    /\ df[ExpectedPurchaseRow].PropertyValue = w.house_price
    /\ df[ExpectedPurchaseRow].OutstandingLoan = loan_amount(w)
    /\ df[Periods - 1].MonthlyMortgage = df[ExpectedPurchaseRow].MonthlyMortgage

\* C9: the purchase row, and no other, carries the down payment and the
\* taxes and fees, tagged apart, and in every row the one-time expenses less
\* the tagged amounts are the user's expenses of the row's month, never below 0
C9_OutlayTaggedApart ==
    ~raised =>
        \A i \in Rows :
            /\ df[i].HousingDownPayment =
                   (IF i = ExpectedPurchaseRow THEN down_payment(w) ELSE 0)
            /\ df[i].HousingTaxesFees =
                   (IF i = ExpectedPurchaseRow
                    THEN calculate_bsd(w.house_price) + absd(w) + legal_fees(w)
                         + other_fees(w)
                    ELSE 0)
            /\ UserPart(i) >= 0
            /\ UserPart(i) >= SumAmounts(one_time_expenses, df[i].index.ym, df[i].index.ym)

\* C10: the one-time expenses of the 72 rows, housing outlay apart, add up to
\* no more than the user's expenses dated up to the last month: an expense
\* dated later is in no row
C10_BeyondHorizonDropped ==
    ~raised =>
        SumRows([i \in Rows |-> UserPart(i)], Periods - 1)
            <= SumAmounts(one_time_expenses, 0, LastYM)

\* a completed run that read an expense dated after the last month
C10_Witness ==
    /\ ~raised
    /\ \E k \in 1..Len(one_time_expenses) : one_time_expenses[k].date.ym > LastYM
    /\ SumRows([i \in Rows |-> df[i].OneTimeExpenses], Periods - 1)
           = SumRows([i \in Rows |-> df[i].HousingDownPayment + df[i].HousingTaxesFees],
                     Periods - 1)

\* whether a date is the last day of its month, one day before the start of
\* the next
LastDayOfMonth(d) == d.day = DaysInMonth(d.ym)

\* C11, as the specification states it, for the purchase outlay: the outlay
\* of a purchase dated one day before the start of month M is on the row of M
C11_SnapsToFollowingMonth ==
    (~raised /\ w.housing_status = "planned" /\ LastDayOfMonth(w.house_purchase_date)
     /\ w.house_purchase_date.ym + 1 \in FirstYM..LastYM) =>
        df[w.house_purchase_date.ym + 1 - FirstYM].HousingDownPayment = down_payment(w)

\* C11, amended: a purchase dated one day before the start of month M is
\* aligned to the row of its own calendar month, M-1, when the table has that
\* month, and row M then carries no outlay; it is aligned to the first row
\* when it is dated before the table, so it is on row M only when M is the
\* first row
C11_DayBeforeStaysInItsMonth ==
    (~raised /\ w.housing_status = "planned" /\ LastDayOfMonth(w.house_purchase_date)) =>
        LET own == w.house_purchase_date.ym
        IN  /\ own \in FirstYM..LastYM =>
                   /\ df[own - FirstYM].HousingDownPayment = down_payment(w)
                   /\ df[own - FirstYM].HousingTaxesFees = total_taxes_fees(w)
                   /\ df[own - FirstYM].MonthlyMortgage = LevelPayment(w)
                   /\ own < LastYM =>
                          /\ df[own + 1 - FirstYM].HousingDownPayment = 0
                          /\ df[own + 1 - FirstYM].HousingTaxesFees = 0
            /\ own < FirstYM =>
                   /\ df[0].HousingDownPayment = down_payment(w)
                   /\ df[0].HousingTaxesFees = total_taxes_fees(w)

\* a purchase dated 31 December with its outlay on the December row and none
\* on the January row
C11_Witness ==
    /\ ~raised
    /\ w.housing_status = "planned"
    /\ LastDayOfMonth(w.house_purchase_date)
    /\ w.house_purchase_date.ym \in (FirstYM + 1)..(LastYM - 1)
    /\ df[w.house_purchase_date.ym - FirstYM].HousingDownPayment > 0
    /\ df[w.house_purchase_date.ym - FirstYM].OneTimeExpenses >= total_cash_outlay(w)
    /\ df[w.house_purchase_date.ym + 1 - FirstYM].HousingDownPayment = 0
    /\ df[w.house_purchase_date.ym + 1 - FirstYM].OneTimeExpenses = 0

\* the four tier formulas of the buyer's stamp duty, as tabulated
BsdTier1(price) == price \div 100
BsdTier2(price) == Dollars(1800) + (price - Dollars(180000)) \div 50
BsdTier3(price) == Dollars(5400) + MulDiv(price - Dollars(360000), 3, 100)
BsdTier4(price) == Dollars(24600) + (price - Dollars(1000000)) \div 25

BsdTable(price) ==
    CASE price <= Dollars(180000)  -> BsdTier1(price)
      [] price > Dollars(180000) /\ price <= Dollars(360000)  -> BsdTier2(price)
      [] price > Dollars(360000) /\ price <= Dollars(1000000) -> BsdTier3(price)
      [] OTHER -> BsdTier4(price)

AbsdTable(price, buyer_status) ==
    CASE buyer_status = "citizen_first"      -> 0
      [] buyer_status = "citizen_additional" -> MulDiv(price, 17, 100)
      [] buyer_status = "pr_first"           -> price \div 20
      [] buyer_status = "pr_additional"      -> price \div 4
      [] buyer_status = "foreigner"          -> MulDiv(price, 3, 10)

\* C12: for every price and buyer the sidebar takes, the two duties are those
\* of the tables, the purchase row carries them with the fees, adjacent tier
\* formulas agree on the boundary between them, 1,000,000 for a citizen's
\* first home gives 24,600 and 0, and 1,700,000 for a foreigner gives 510,000
C12_StampDutyTables ==
    (~raised /\ w.housing_status = "planned") =>
        /\ calculate_bsd(w.house_price) = BsdTable(w.house_price)
        /\ absd(w) = AbsdTable(w.house_price, w.buyer_status)
        /\ ExpectedPurchaseRow >= 0 =>
               df[ExpectedPurchaseRow].HousingTaxesFees
                   = BsdTable(w.house_price) + AbsdTable(w.house_price, w.buyer_status)
                     + legal_fees(w) + other_fees(w)
        /\ BsdTier1(Dollars(180000)) = BsdTier2(Dollars(180000))
        /\ BsdTier2(Dollars(360000)) = BsdTier3(Dollars(360000))
        /\ BsdTier3(Dollars(1000000)) = BsdTier4(Dollars(1000000))
        /\ (w.house_price = Dollars(1000000) /\ w.buyer_status = "citizen_first") =>
               calculate_bsd(w.house_price) = Dollars(24600) /\ absd(w) = 0
        /\ (w.house_price = Dollars(1700000) /\ w.buyer_status = "foreigner") =>
               absd(w) = Dollars(510000)

\* a purchase at 1,000,001 by a permanent resident buying a second home, in
\* the top tier, with duties and fees on the purchase row
C12_Witness ==
    /\ ~raised
    /\ w.housing_status = "planned"
    /\ w.house_price = Dollars(1000001)
    /\ w.buyer_status = "pr_additional"
    /\ df[0].HousingTaxesFees
           = Dollars(24600) + 4 + Dollars(250000) + 25 + Dollars(6000) + Dollars(2000)

\* an income of 5000 against base expenses of 2000, with nothing else
SavingsExample ==
    RunScript([Merge(HousingWidgets("none"), OtherWidgets(Now(0))) EXCEPT
                   !.monthly_income = Dollars(5000),
                   !.monthly_expenses = Dollars(2000),
                   !.monthly_child_expenses = 0,
                   !.annual_insurance = 0,
                   !.annual_tax = 0,
                   !.annual_bonus = 0,
                   !.childcare_monthly = 0,
                   !.preschool_monthly = 0,
                   !.primary_school_monthly = 0],
              <<>>, Now(0))

\* C13: in every row the monthly savings are income plus bonus less the sum
\* of mortgage, base expenses, child expenses, insurance and tax shares,
\* education fees and one-time expenses, of either sign, each column being
\* the input it stands for; an income of 5000 against base expenses of 2000
\* alone saves 3000 in each of the 72 rows
C13_MonthlySavings ==
    /\ ~raised =>
           \A i \in Rows :
               LET r == df[i]
               IN  /\ r.MonthlyIncome = w.monthly_income
                   /\ r.MonthlyExpenses = w.monthly_expenses
                   /\ r.MonthlyInsurance = w.annual_insurance \div 12
                   /\ r.MonthlyTax = w.annual_tax \div 12
                   /\ r.Bonus = (IF r.Month = 12 THEN w.annual_bonus ELSE 0)
                   /\ r.TotalMonthlyExpenses =
                          r.MonthlyMortgage + r.MonthlyExpenses + r.MonthlyChildExpenses
                          + r.MonthlyInsurance + r.MonthlyTax + r.ChildcareExpense
                          + r.PreschoolExpense + r.PrimarySchoolExpense + r.OneTimeExpenses
                   /\ r.MonthlySavings =
                          r.MonthlyIncome + r.Bonus - r.TotalMonthlyExpenses
    /\ LET example == SavingsExample
       IN  /\ ~example.raised
           /\ \A i \in Rows : example.df[i].MonthlySavings = Dollars(3000)

\* a table of an income of 5000 with negative savings in the purchase month,
\* negative savings in a month without one-time expenses, and a December of
\* savings raised by the bonus
C13_Witness ==
    /\ ~raised
    /\ w.monthly_income = Dollars(5000)
    /\ \E i \in Rows :
           /\ df[i].OneTimeExpenses > 0
           /\ df[i].MonthlySavings < 0
           /\ df[i].MonthlySavings = df[i].MonthlyIncome + df[i].Bonus
                                     - df[i].TotalMonthlyExpenses
    /\ \E i \in Rows : df[i].OneTimeExpenses = 0 /\ df[i].MonthlySavings < 0
    /\ \E i \in Rows : df[i].Bonus > 0 /\ df[i].MonthlySavings > df[i].MonthlyIncome

\* C14: in every row of every housing mode the equity is the property value
\* less the outstanding loan, of either sign, and the total assets are the
\* cumulative savings plus the equity
C14_EquityAndAssets ==
    ~raised =>
        \A i \in Rows :
            /\ df[i].PropertyEquity = df[i].PropertyValue - df[i].OutstandingLoan
            /\ df[i].TotalAssets = df[i].CumulativeSavings + df[i].PropertyEquity

\* an owned home worth less than its loan: negative equity in the first row,
\* total assets below the savings
C14_Witness ==
    /\ ~raised
    /\ w.housing_status = "owned"
    /\ df[0].PropertyValue > 0
    /\ df[0].OutstandingLoan > df[0].PropertyValue
    /\ df[0].PropertyEquity < 0
    /\ df[0].TotalAssets < df[0].CumulativeSavings

\* C15: the table has 72 rows, one per consecutive calendar month, each
\* dated the first day of its month, the first being the month of the run
C15_MonthStartTimeline ==
    ~raised =>
        /\ DOMAIN df = Rows
        /\ \E t \in 0..tick : df[0].index.ym = Now(t).ym
        /\ \A i \in Rows :
               /\ df[i].index.ym = df[0].index.ym + i
               /\ df[i].Year = Year(df[0].index.ym + i)
               /\ df[i].Month = Month(df[0].index.ym + i)
               /\ df[i].index.day = 1

\* the rows of a table without their timestamps: what a month's record holds
MonthRecords(table) ==
    [i \in Rows |-> [f \in (DOMAIN table[i]) \ {"index"} |-> table[i][f]]]

AmortizationTolerance(loan) == loan \div 100000 + 1

\* C17: at a positive rate, when the table holds the whole term n after the
\* purchase row p, the balance of row p + n is 0 within tolerance: the
\* balance of the row before it, with one month's interest, is one payment
C17_AmortizationConservation ==
    (~raised /\ w.housing_status = "planned" /\ w.interest_rate > 0
     /\ ExpectedPurchaseRow >= 0
     /\ ExpectedPurchaseRow + total_payments(w) <= Periods - 1) =>
        LET last == ExpectedPurchaseRow + total_payments(w)
            due  == df[last - 1].OutstandingLoan
                    + MulDiv(df[last - 1].OutstandingLoan, w.interest_rate, 12000)
        IN  /\ df[ExpectedPurchaseRow].OutstandingLoan = loan_amount(w)
            /\ df[last].OutstandingLoan <= AmortizationTolerance(loan_amount(w))
            /\ due <= df[last].MonthlyMortgage + AmortizationTolerance(loan_amount(w))
            /\ due >= df[last].MonthlyMortgage - AmortizationTolerance(loan_amount(w))
            /\ \A i \in (last + 1)..(Periods - 1) : df[i].OutstandingLoan = 0

\* a five-year loan taken in the first row: more than a thousand dollars
\* owed after 59 payments, nothing after 60
C17_Witness ==
    /\ ~raised
    /\ w.housing_status = "planned"
    /\ w.interest_rate > 0
    /\ total_payments(w) = 60
    /\ df[0].OutstandingLoan = loan_amount(w)
    /\ df[59].OutstandingLoan > Dollars(1000)
    /\ df[60].OutstandingLoan <= AmortizationTolerance(loan_amount(w))
    /\ df[61].OutstandingLoan = 0

\* C18: for an owned home with an outstanding loan L > 0 and a monthly
\* mortgage m >= 0, the run completes and the balance of row i is
\* max(0, L - i * m): L in the first row, m less each month, never below 0,
\* and L throughout when m is 0
C18_KnownBalanceSchedule ==
    (w.housing_status = "owned" /\ w.outstanding_loan > 0) =>
        /\ ~raised
        /\ \A i \in Rows :
               df[i].OutstandingLoan
                   = Max(0, w.outstanding_loan - i * w.monthly_mortgage)
        /\ w.monthly_mortgage = 0 =>
               \A i \in Rows : df[i].OutstandingLoan = w.outstanding_loan

\* a loan of forty monthly mortgages: one mortgage left in row 39, nothing
\* from row 40 on
C18_Witness ==
    /\ ~raised
    /\ w.housing_status = "owned"
    /\ w.monthly_mortgage > 0
    /\ w.outstanding_loan = 40 * w.monthly_mortgage
    /\ df[0].OutstandingLoan = w.outstanding_loan
    /\ df[39].OutstandingLoan = w.monthly_mortgage
    /\ df[40].OutstandingLoan = 0
    /\ df[Periods - 1].OutstandingLoan = 0

\* C19: in every row the child's age is (year - reference year) * 12 +
\* (month - reference month), the recurring child expense is the monthly
\* amount exactly when the age is 0 or more, and in the rows of age 0 to 5
\* it is charged while the three education fees are 0 (the table being that
\* of the inputs at hand: no run is waiting to be made)
C19_ChildExpenseFromBirth ==
    (~raised /\ ~rerun_requested) =>
        \A i \in Rows :
            LET r   == df[i]
                age == (r.Year - Year(w.child_birth_date.ym)) * 12
                       + (r.Month - Month(w.child_birth_date.ym))
            IN  /\ r.ChildAgeMonths = age
                /\ r.MonthlyChildExpenses =
                       (IF age >= 0 THEN w.monthly_child_expenses ELSE 0)
                /\ (0 <= age /\ age < 6) =>
                       /\ r.MonthlyChildExpenses = w.monthly_child_expenses
                       /\ r.ChildcareExpense = 0
                       /\ r.PreschoolExpense = 0
                       /\ r.PrimarySchoolExpense = 0
                       /\ r.TotalEducationExpenses = 0

\* a table that holds the month before the reference month, free of child
\* expenses, and the six months from it on, charged without education fees
C19_Witness ==
    /\ ~raised
    /\ w.monthly_child_expenses > 0
    /\ \E i \in 0..(Periods - 8) :
           /\ df[i].ChildAgeMonths = -1
           /\ df[i].MonthlyChildExpenses = 0
           /\ \A j \in (i + 1)..(i + 6) :
                  /\ df[j].MonthlyChildExpenses = w.monthly_child_expenses
                  /\ df[j].TotalEducationExpenses = 0
           /\ df[i + 7].ChildcareExpense > 0

\* C20: a planned purchase is aligned to the earliest row whose month is not
\* before the month of the purchase date.  Dated before the table, it has the
\* outlay, the first payment, the whole loan and the price as paid in the
\* first row; dated after the table, it leaves every housing column 0 in all
\* rows and adds no outlay, and the run completes.
C20_PurchaseAlignment ==
    w.housing_status = "planned" =>
        /\ ~raised
        /\ LET p == ExpectedPurchaseRow
           IN  /\ p >= 0 =>
                      /\ df[p].HousingDownPayment = down_payment(w)
                      /\ df[p].HousingTaxesFees = total_taxes_fees(w)
                      /\ df[p].OneTimeExpenses >= total_cash_outlay(w)
                      /\ df[p].MonthlyMortgage = LevelPayment(w)
                      /\ df[p].OutstandingLoan = loan_amount(w)
                      /\ df[p].PropertyValue = w.house_price
                      /\ \A i \in 0..(p - 1) :
                             /\ df[i].MonthlyMortgage = 0
                             /\ df[i].HousingDownPayment = 0
                             /\ df[i].HousingTaxesFees = 0
               /\ w.house_purchase_date.ym < FirstYM => p = 0
               /\ w.house_purchase_date.ym > LastYM =>
                      \A i \in Rows :
                          /\ df[i].MonthlyMortgage = 0
                          /\ df[i].PropertyValue = 0
                          /\ df[i].OutstandingLoan = 0
                          /\ df[i].PropertyEquity = 0
                          /\ df[i].HousingDownPayment = 0
                          /\ df[i].HousingTaxesFees = 0
                          /\ UserPart(i) = df[i].OneTimeExpenses

\* a purchase dated before the table, with its outlay, its first payment, the
\* whole loan and the price as paid in the first row
C20_Witness ==
    /\ ~raised
    /\ w.housing_status = "planned"
    /\ w.house_purchase_date.ym < FirstYM
    /\ df[0].HousingDownPayment = down_payment(w)
    /\ df[0].HousingDownPayment > 0
    /\ df[0].MonthlyMortgage > 0
    /\ df[0].OutstandingLoan = loan_amount(w)
    /\ df[0].OutstandingLoan > 0
    /\ df[0].PropertyValue = w.house_price
    /\ df[1].PropertyValue > w.house_price

\* a record the form accepts
ValidExpense(e) == e.name # "" /\ e.amount > 0

\* C21: every record of the session list has a non-empty name and an amount
\* above 0, and the list changes in two ways only: one accepted record is
\* appended, or the clear button empties it, the widgets being drawn again
\* with the values they hold; a refused submission, a change of a widget and
\* the run that follows any of them leave it as it is
C21_ExpenseListIntegrity ==
    /\ [](\A k \in 1..Len(one_time_expenses) : ValidExpense(one_time_expenses[k]))
    /\ [][\/ one_time_expenses' = one_time_expenses
          \/ /\ w' = Drawn(w, Now(tick))
             /\ Len(one_time_expenses') = Len(one_time_expenses) + 1
             /\ SubSeq(one_time_expenses', 1, Len(one_time_expenses)) = one_time_expenses
             /\ ValidExpense(one_time_expenses'[Len(one_time_expenses')])
          \/ /\ w' = Drawn(w, Now(tick))
             /\ one_time_expenses # <<>>
             /\ one_time_expenses' = <<>>]_vars

\* a list of two accepted records, the later-dated one submitted first, read
\* unchanged by the run that drew the table
C21_Witness ==
    /\ ~raised
    /\ DOMAIN df = Rows
    /\ Len(one_time_expenses) = 2
    /\ one_time_expenses[1].date.ym > one_time_expenses[2].date.ym
    /\ \A k \in 1..2 : ValidExpense(one_time_expenses[k])

\* C22: the outlay of a planned purchase is part of the one-time expenses of
\* its row p, for any p from the first row on, and it is taken off the cash
\* of row p and of every row after it: each row's cumulative savings are
\* the initial funds plus the monthly savings of all rows up to it, so the
\* last row holds the initial funds plus the savings of all 72 months
C22_OutlayDeductedFromCash ==
    ~raised =>
        LET savings == [i \in Rows |-> df[i].MonthlySavings]
            p       == ExpectedPurchaseRow
        IN  /\ p >= 0 =>
                   /\ df[p].OneTimeExpenses >= total_cash_outlay(w)
                   /\ \A i \in p..(Periods - 1) :
                          df[i].CumulativeSavings = w.initial_funds + SumRows(savings, i)
            /\ df[Periods - 1].CumulativeSavings
                   = w.initial_funds + SumRows(savings, Periods - 1)

\* the principal part of the payment of row i: the payment less a month's
\* interest on the balance of the row above
PrincipalPart(i) ==
    df[i].MonthlyMortgage - MulDiv(df[i - 1].OutstandingLoan, w.interest_rate, 12000)

\* the balance of a planned purchase at a positive rate is the loan amount in
\* the purchase row p and, in every later row, at least 0, at most the
\* balance of the row above and at most the loan amount
LoanNeverRises(p) ==
    /\ df[p].OutstandingLoan = loan_amount(w)
    /\ \A i \in (p + 1)..(Periods - 1) :
           /\ 0 <= df[i].OutstandingLoan
           /\ df[i].OutstandingLoan <= df[i - 1].OutstandingLoan
           /\ df[i - 1].OutstandingLoan <= loan_amount(w)
           /\ df[i].OutstandingLoan = Max(0, df[i - 1].OutstandingLoan - PrincipalPart(i))

\* C23, as the specification states it: the balance never rises from the
\* purchase row on, and the principal part of every later payment is positive
C23_LoanNonIncreasing ==
    (~raised /\ w.housing_status = "planned" /\ w.interest_rate > 0
     /\ ExpectedPurchaseRow >= 0) =>
        /\ LoanNeverRises(ExpectedPurchaseRow)
        /\ \A i \in (ExpectedPurchaseRow + 1)..(Periods - 1) : PrincipalPart(i) > 0

\* C23, amended: the balance never rises from the purchase row on; the
\* principal part of every later payment is positive when there is a loan,
\* and 0 when the loan amount is 0 (a house price of 0)
C23_LoanNonIncreasingAnyPrice ==
    (~raised /\ w.housing_status = "planned" /\ w.interest_rate > 0
     /\ ExpectedPurchaseRow >= 0) =>
        /\ LoanNeverRises(ExpectedPurchaseRow)
        /\ \A i \in (ExpectedPurchaseRow + 1)..(Periods - 1) :
               IF loan_amount(w) > 0 THEN PrincipalPart(i) > 0 ELSE PrincipalPart(i) = 0

\* a 20-year loan that falls in every row of the table and is not paid off
\* in the last
C23_Witness ==
    /\ ~raised
    /\ w.housing_status = "planned"
    /\ w.interest_rate > 0
    /\ ExpectedPurchaseRow >= 0
    /\ df[ExpectedPurchaseRow].OutstandingLoan = loan_amount(w)
    /\ df[Periods - 1].OutstandingLoan > 0
    /\ \A i \in (ExpectedPurchaseRow + 1)..(Periods - 1) :
           df[i].OutstandingLoan < df[i - 1].OutstandingLoan

====
